---- MODULE Spec2Model ----
(***************************************************************************)
(* django-typomatic: the registry filled by the ts_field and ts_interface  *)
(* class decorators, the resolution of a serializer field to a TypeScript  *)
(* type (__process_field), the rendering of one interface                  *)
(* (__get_ts_interface) and the emission of the namespaces (generate_ts).  *)
(*                                                                         *)
(* Type strings are TLA+ strings, concatenated with \o.  A class is named  *)
(* by an identifier; its __name__ is a sequence of words, so that the      *)
(* regular expression 'Serializer$' is a test on the last word.  A Python  *)
(* dict whose iteration order is observed (__serializers) is a sequence of *)
(* key/value records in insertion order; the other dicts are functions.    *)
(* The text written to the file is kept as its parts (namespaces,          *)
(* interfaces, lines), not as laid-out characters.                         *)
(***************************************************************************)
EXTENDS Integers, Sequences, FiniteSets, TLC

\* Number of decorator applications in one behaviour.
MaxCalls == 2

VARIABLES
    __serializers,        \* ordered dict: context -> list of serializer classes
    __field_mappings,     \* dict: context -> dict: field class -> TS type
    __mapping_overrides,  \* dict: context -> dict: serializer -> dict: field name -> TS type
    output_file,          \* the namespaces generate_ts wrote to the file, in order
    call,                 \* the arguments generate_ts was called with
    error,                \* the exception the last generate_ts raised, or "None"
    returned,             \* the class the last decorator returned
    history,              \* the accepted registrations, in call order
    phase,                \* "load" while modules are imported, then "generated"
    calls                 \* decorator applications so far

vars == <<__serializers, __field_mappings, __mapping_overrides, output_file,
          call, error, returned, history, phase, calls>>

registry == <<__serializers, __field_mappings, __mapping_overrides>>

__default_context == "default"

----------------------------------------------------------------------------
(* The host object model: classes, their bases, names and declared fields. *)

Contexts == {"default", "internal", "admin"}

SerializerClasses == {"UserSerializer", "AddressSerializer"}

\* Field subclasses that are no serializers; the class Plain is neither.
FieldClasses == {"IntegerField", "CharField", "MoneyField", "ListField", "ListSerializer"}

\* The classes @ts_field(...) is applied to.
FieldDecorated == {"MoneyField", "UserSerializer", "Plain"}

\* The classes @ts_interface(...) is applied to.
InterfaceDecorated == {"UserSerializer", "AddressSerializer", "Plain"}

\* The kinds a field, or the child of a collection field, can have.
FieldKinds == {"IntegerField", "CharField", "MoneyField", "UserSerializer", "AddressSerializer"}

NoClass == "None"

\* issubclass(cls, serializers.Serializer)
IsSerializer(cls) == cls \in SerializerClasses

\* Mutant: the decorator accepts any class.
IsFieldAnyClass(cls) == TRUE

\* issubclass(cls, serializers.Field): Serializer derives from Field.
IsField(cls) == cls \in FieldClasses \cup SerializerClasses

\* cls.__name__, word by word.
ClassName(cls) ==
    CASE cls = "UserSerializer" -> <<"User", "Serializer">>
      [] cls = "AddressSerializer" -> <<"Address", "Serializer">>
      [] OTHER -> <<cls>>

\* A field instance: its class, and its 'child' attribute when it has one.
Scalar(cls) == [type |-> cls, child |-> <<>>]

ListOf(cls) == [type |-> IF IsSerializer(cls) THEN "ListSerializer" ELSE "ListField",
                child |-> <<cls>>]

\* The ordered (name, field) items of a serializer: get_fields() of a
\* ModelSerializer instance, _declared_fields of another serializer.
Fields(serializer) ==
    CASE serializer = "UserSerializer" ->
           << [name |-> "id",        field |-> Scalar("IntegerField")],
              [name |-> "price",     field |-> Scalar("MoneyField")],
              [name |-> "age",       field |-> Scalar("IntegerField")],
              [name |-> "manager",   field |-> Scalar("UserSerializer")],
              [name |-> "addresses", field |-> ListOf("AddressSerializer")],
              [name |-> "prices",    field |-> ListOf("MoneyField")] >>
      [] serializer = "AddressSerializer" ->
           << [name |-> "street", field |-> Scalar("CharField")],
              [name |-> "owner",  field |-> Scalar("UserSerializer")],
              [name |-> "tags",   field |-> ListOf("CharField")] >>
      [] OTHER -> <<>>

\* The static table of .mappings.
mappings == [IntegerField |-> "number", CharField |-> "string"]

\* The TS types ts_field is called with.
TsTypes == {"", "Money"}

\* A mapping_overrides argument: <<>> is None, <<d>> is the dict d.
None == <<>>

OverrideArgs ==
    { None,
      << <<>> >>,
      << [manager |-> "Boss", price |-> "Decimal"] >>,
      << [price |-> "", id |-> "ID"] >> }

\* Mutant: 'is not None' in place of the truth test.
TruthyNotNone(mapping_overrides) == mapping_overrides # <<>>

\* Python truth of a mapping_overrides argument.
Truthy(mapping_overrides) ==
    /\ mapping_overrides # None
    /\ DOMAIN mapping_overrides[1] # {}

----------------------------------------------------------------------------
(* Python containers.                                                      *)

\* key in od, for an insertion-ordered dict.
HasKey(od, key) == \E i \in 1..Len(od) : od[i].key = key

\* od[key]
Lookup(od, key) == od[CHOOSE i \in 1..Len(od) : od[i].key = key].val

\* Mutant: a new key goes first.
StoreFirst(od, key, val) ==
    IF \E i \in 1..Len(od) : od[i].key = key
    THEN [i \in 1..Len(od) |-> IF od[i].key = key THEN [key |-> key, val |-> val] ELSE od[i]]
    ELSE <<[key |-> key, val |-> val]>> \o od

\* od[key] = val: a new key goes last, an old key keeps its place.
Store(od, key, val) ==
    IF HasKey(od, key)
    THEN [i \in 1..Len(od) |-> IF od[i].key = key THEN [key |-> key, val |-> val] ELSE od[i]]
    ELSE Append(od, [key |-> key, val |-> val])

\* The keys of an insertion-ordered dict, in iteration order.
Keys(od) == [i \in 1..Len(od) |-> od[i].key]

\* d[key] = val, for a dict whose order is not observed.
Put(d, key, val) == [k \in DOMAIN d \cup {key} |-> IF k = key THEN val ELSE d[k]]

\* x in list
InList(x, list) == \E i \in 1..Len(list) : list[i] = x

EmptyDict == <<>>

----------------------------------------------------------------------------
(* Registration.                                                           *)

Init ==
    /\ __serializers = <<>>
    /\ __field_mappings = EmptyDict
    /\ __mapping_overrides = EmptyDict
    /\ output_file = <<>>
    /\ call = [context |-> __default_context, prefix |-> "", suffix |-> "",
               all_contexts |-> FALSE]
    /\ error = "None"
    /\ returned = NoClass
    /\ history = [contexts |-> <<>>, schema_contexts |-> <<>>, schemas |-> <<>>]
    /\ phase = "load"
    /\ calls = 0

\* The context as first registered by a decorator that accepted its class.
NoteContext(h, context) ==
    IF InList(context, h.contexts) THEN h
    ELSE [h EXCEPT !.contexts = Append(@, context)]

\* The accepted ts_interface registrations: contexts by first schema, schemas by call.
NoteSchema(h, context, cls) ==
    [NoteContext(h, context) EXCEPT
        !.schema_contexts = IF InList(context, @) THEN @ ELSE Append(@, context),
        !.schemas = Put(@, context,
                        IF context \in DOMAIN @ THEN Append(@[context], cls) ELSE <<cls>>)]

\* ts_field(ts_type, context)(cls)
ts_field(ts_type, context, cls) ==
    /\ phase = "load"
    /\ calls < MaxCalls
    /\ calls' = calls + 1
    /\ IF IsField(cls)
       THEN LET withContext == IF context \notin DOMAIN __field_mappings
                               THEN Put(__field_mappings, context, EmptyDict)
                               ELSE __field_mappings
            IN /\ __field_mappings' =
                    IF cls \notin DOMAIN withContext[context]
                    THEN Put(withContext, context, Put(withContext[context], cls, ts_type))
                    ELSE withContext
               /\ history' = NoteContext(history, context)
       ELSE UNCHANGED <<__field_mappings, history>>
    /\ returned' = cls
    /\ UNCHANGED <<__serializers, __mapping_overrides, output_file, call, error, phase>>

\* ts_interface(context, mapping_overrides)(cls)
ts_interface(context, mapping_overrides, cls) ==
    /\ phase = "load"
    /\ calls < MaxCalls
    /\ calls' = calls + 1
    /\ IF IsSerializer(cls)
       THEN LET withContext == IF ~HasKey(__serializers, context)
                               THEN Store(__serializers, context, <<>>)
                               ELSE __serializers
            IN /\ __serializers' =
                    Store(withContext, context, Append(Lookup(withContext, context), cls))
               /\ IF Truthy(mapping_overrides)
                  THEN LET overrides == IF context \notin DOMAIN __mapping_overrides
                                        THEN Put(__mapping_overrides, context, EmptyDict)
                                        ELSE __mapping_overrides
                       IN __mapping_overrides' =
                            IF cls \notin DOMAIN overrides[context]
                            THEN Put(overrides, context,
                                     Put(overrides[context], cls, mapping_overrides[1]))
                            ELSE overrides
                  ELSE UNCHANGED __mapping_overrides
               /\ history' = NoteSchema(history, context, cls)
       ELSE UNCHANGED <<__serializers, __mapping_overrides, history>>
    /\ returned' = cls
    /\ UNCHANGED <<__field_mappings, output_file, call, error, phase>>

----------------------------------------------------------------------------
(* Resolution and rendering.                                               *)

\* ''.join(words)
RECURSIVE Concat(_)
Concat(words) == IF words = <<>> THEN "" ELSE Head(words) \o Concat(Tail(words))

\* sep.join(strings)
RECURSIVE Join(_, _)
Join(strings, sep) ==
    IF strings = <<>> THEN ""
    ELSE IF Len(strings) = 1 THEN strings[1]
    ELSE strings[1] \o sep \o Join(Tail(strings), sep)

\* re.sub('Serializer$', '', name)
StripSerializer(name) ==
    IF Len(name) > 0 /\ name[Len(name)] = "Serializer"
    THEN SubSeq(name, 1, Len(name) - 1)
    ELSE name

__get_interface_name(name, prefix, suffix) ==
    prefix \o Concat(StripSerializer(name)) \o suffix

\* hasattr(field, 'child')
is_many(field) == field.child # <<>>

\* Mutant: the class of the collection field, not of its child.
FieldTypeOfCollection(field) == field.type

\* is_many and type(field.child) or type(field): a class is always true.
field_type(field) == IF is_many(field) THEN field.child[1] ELSE field.type

\* Mutant: no 'any' default.
MappingsGetNoDefault(kind) == IF kind \in DOMAIN mappings THEN mappings[kind] ELSE ""

\* mappings.get(kind, 'any')
MappingsGet(kind) == IF kind \in DOMAIN mappings THEN mappings[kind] ELSE "any"

\* Mutant: the field-kind overrides are tested before the registered serializers.
TierKindOverrideFirst(field_name, field, context, serializer) ==
    LET kind == field_type(field) IN
    IF ~HasKey(__serializers, context) THEN 0
    ELSE IF /\ context \in DOMAIN __field_mappings
            /\ kind \in DOMAIN __field_mappings[context] THEN 3
    ELSE IF /\ __default_context \in DOMAIN __field_mappings
            /\ kind \in DOMAIN __field_mappings[__default_context] THEN 4
    ELSE IF InList(kind, Lookup(__serializers, context)) THEN 1
    ELSE IF /\ HasKey(__serializers, __default_context)
            /\ InList(kind, Lookup(__serializers, __default_context)) THEN 2
    ELSE IF /\ context \in DOMAIN __mapping_overrides
            /\ serializer \in DOMAIN __mapping_overrides[context]
            /\ field_name \in DOMAIN __mapping_overrides[context][serializer] THEN 5
    ELSE 6

\* Mutant: the field-name override is tested before the field-kind overrides.
TierNameOverrideFirst(field_name, field, context, serializer) ==
    LET kind == field_type(field) IN
    IF ~HasKey(__serializers, context) THEN 0
    ELSE IF InList(kind, Lookup(__serializers, context)) THEN 1
    ELSE IF /\ HasKey(__serializers, __default_context)
            /\ InList(kind, Lookup(__serializers, __default_context)) THEN 2
    ELSE IF /\ context \in DOMAIN __mapping_overrides
            /\ serializer \in DOMAIN __mapping_overrides[context]
            /\ field_name \in DOMAIN __mapping_overrides[context][serializer] THEN 5
    ELSE IF /\ context \in DOMAIN __field_mappings
            /\ kind \in DOMAIN __field_mappings[context] THEN 3
    ELSE IF /\ __default_context \in DOMAIN __field_mappings
            /\ kind \in DOMAIN __field_mappings[__default_context] THEN 4
    ELSE 6

\* Mutant: a serializer registered in any context counts as registered in 'default'.
TierAnyContextSchema(field_name, field, context, serializer) ==
    LET kind == field_type(field) IN
    IF ~HasKey(__serializers, context) THEN 0
    ELSE IF InList(kind, Lookup(__serializers, context)) THEN 1
    ELSE IF \E i \in 1..Len(__serializers) : InList(kind, __serializers[i].val) THEN 2
    ELSE IF /\ context \in DOMAIN __field_mappings
            /\ kind \in DOMAIN __field_mappings[context] THEN 3
    ELSE IF /\ __default_context \in DOMAIN __field_mappings
            /\ kind \in DOMAIN __field_mappings[__default_context] THEN 4
    ELSE IF /\ context \in DOMAIN __mapping_overrides
            /\ serializer \in DOMAIN __mapping_overrides[context]
            /\ field_name \in DOMAIN __mapping_overrides[context][serializer] THEN 5
    ELSE 6

\* The branch of the if/elif chain of __process_field that is taken, 1 to 6, or 0
\* when the first test raises KeyError because context is no key of __serializers.
Tier(field_name, field, context, serializer) ==
    LET kind == field_type(field) IN
    IF ~HasKey(__serializers, context) THEN 0
    ELSE IF InList(kind, Lookup(__serializers, context)) THEN 1
    ELSE IF /\ HasKey(__serializers, __default_context)
            /\ InList(kind, Lookup(__serializers, __default_context)) THEN 2
    ELSE IF /\ context \in DOMAIN __field_mappings
            /\ kind \in DOMAIN __field_mappings[context] THEN 3
    ELSE IF /\ __default_context \in DOMAIN __field_mappings
            /\ kind \in DOMAIN __field_mappings[__default_context] THEN 4
    ELSE IF /\ context \in DOMAIN __mapping_overrides
            /\ serializer \in DOMAIN __mapping_overrides[context]
            /\ field_name \in DOMAIN __mapping_overrides[context][serializer] THEN 5
    ELSE 6

\* The result of __process_field: the tuple (field_name, ts_type) as the fields
\* name and ts_type, and exc the exception raised instead ("None" when it returns).
__process_field(field_name, field, context, serializer, prefix, suffix) ==
    LET kind == field_type(field)
        tier == Tier(field_name, field, context, serializer)
        ts_type ==
            CASE tier = 1 -> __get_interface_name(ClassName(kind), prefix, suffix)
              [] tier = 2 -> __get_interface_name(ClassName(kind), prefix, suffix)
              [] tier = 3 -> __field_mappings[context][kind]
              [] tier = 4 -> __field_mappings[__default_context][kind]
              [] tier = 5 -> __mapping_overrides[context][serializer][field_name]
              [] OTHER -> MappingsGet(kind)
    IN IF tier = 0
       THEN [name |-> field_name, ts_type |-> "", exc |-> "KeyError"]
       ELSE [name |-> field_name,
             ts_type |-> IF is_many(field) THEN ts_type \o "[]" ELSE ts_type,
             exc |-> "None"]

\* Mutant: every type is appended.
IndexableTypesAll(types) == types

\* The list ts_indexable_types after the loop has seen the given types.
RECURSIVE IndexableTypes(_)
IndexableTypes(types) ==
    IF types = <<>> THEN <<>>
    ELSE LET before == IndexableTypes(SubSeq(types, 1, Len(types) - 1))
             last == types[Len(types)]
         IN IF ~InList(last, before) THEN Append(before, last) ELSE before

\* The result of __get_ts_interface.  The text returned is
\*   export interface <name> { <indexable_type_str> <ts_fields> }
\* and is kept as its parts: the interface name, the '[x: string]' line and, for
\* each line of ts_fields, the tuple (field name, type) it is formatted from.
\* exc is the exception a __process_field call raised, "None" when none did.
__get_ts_interface(serializer, context, ts_interface_prefix, ts_interface_suffix) ==
    LET fields == Fields(serializer)
        processed == [i \in 1..Len(fields) |->
                        __process_field(fields[i].name, fields[i].field, context,
                                        serializer, ts_interface_prefix, ts_interface_suffix)]
        ts_fields == [i \in 1..Len(fields) |-> <<processed[i].name, processed[i].ts_type>>]
        ts_indexable_types == IndexableTypes([i \in 1..Len(fields) |-> processed[i].ts_type])
        ts_indexable_type == Join(ts_indexable_types, " | ")
        name == __get_interface_name(ClassName(serializer), ts_interface_prefix,
                                     ts_interface_suffix)
    IN [name |-> name,
        indexable_type_str |-> "    [x: string]: " \o ts_indexable_type \o ";",
        ts_fields |-> ts_fields,
        exc |-> IF \E i \in 1..Len(fields) : processed[i].exc # "None"
                THEN "KeyError" ELSE "None"]

\* The contexts for which the loop of generate_ts enters the if, in loop order.
DeclaredContexts(context, all_contexts) ==
    SelectSeq(Keys(__serializers), LAMBDA declared_context :
                  all_contexts \/ context = declared_context)

\* The list 'interfaces' the loop builds for one declared context.
Interfaces(declared_context, prefix, suffix) ==
    LET list == Lookup(__serializers, declared_context)
    IN [i \in 1..Len(list) |-> __get_ts_interface(list[i], declared_context, prefix, suffix)]

\* generate_ts(output_path, context, ts_interface_prefix, ts_interface_suffix, all_contexts),
\* called once the modules are loaded.  The file, opened with 'w', holds what the
\* passes of the loop before the first one that raises wrote: per pass the text
\*   declare namespace <declared_context> { <interfaces> }
\* kept as the namespace and the list of interfaces.
generate_ts(context, ts_interface_prefix, ts_interface_suffix, all_contexts) ==
    LET declared == DeclaredContexts(context, all_contexts)
        passes == [i \in 1..Len(declared) |->
                     [namespace |-> declared[i],
                      interfaces |-> Interfaces(declared[i], ts_interface_prefix,
                                                ts_interface_suffix)]]
        raising == {i \in 1..Len(declared) :
                       \E j \in 1..Len(passes[i].interfaces) :
                           passes[i].interfaces[j].exc # "None"}
        done == IF raising = {} THEN Len(declared)
                ELSE (CHOOSE i \in raising : \A k \in raising : i <= k) - 1
    IN /\ phase = "load"
       /\ output_file' = SubSeq(passes, 1, done)
       /\ error' = IF done < Len(declared) THEN "KeyError" ELSE "None"
       /\ phase' = "generated"
       /\ call' = [context |-> context, prefix |-> ts_interface_prefix,
                   suffix |-> ts_interface_suffix, all_contexts |-> all_contexts]
       /\ UNCHANGED <<__serializers, __field_mappings, __mapping_overrides, returned,
                      history, calls>>

\* The prefix and suffix pairs generate_ts is called with.
Affixes == {<<"", "">>, <<"I", "Dto">>}

\* The context and all_contexts arguments generate_ts is called with: each context
\* alone, and all contexts with the context argument left at its default.
GenerateCalls ==
    {[context |-> c, all_contexts |-> FALSE] : c \in Contexts}
        \cup {[context |-> __default_context, all_contexts |-> TRUE]}

Next ==
    \/ \E ts_type \in TsTypes, context \in Contexts, cls \in FieldDecorated :
          ts_field(ts_type, context, cls)
    \/ \E context \in Contexts, mapping_overrides \in OverrideArgs, cls \in InterfaceDecorated :
          ts_interface(context, mapping_overrides, cls)
    \/ \E call_args \in GenerateCalls, affix \in Affixes :
          generate_ts(call_args.context, affix[1], affix[2], call_args.all_contexts)

Spec == Init /\ [][Next]_vars
----------------------------------------------------------------------------
(* What the properties below are stated with.                              *)

\* The field names resolution is checked for: names with an entry in one or both
\* override maps, and a name with none.
CheckedNames == {"price", "manager", "id", "street"}

\* The contexts that are keys of __serializers: those generate_ts can render.
Rendered == {__serializers[i].key : i \in 1..Len(__serializers)}

\* The type __process_field resolves, with the default prefix and suffix.
Resolved(field_name, field, context, serializer) ==
    __process_field(field_name, field, context, serializer, "", "").ts_type

\* The interface name a serializer class is to be given.
ExpectedName(cls, prefix, suffix) ==
    prefix \o (IF cls = "UserSerializer" THEN "User" ELSE "Address") \o suffix

\* Number of positions of a sequence that hold x.
Count(x, seq) == Cardinality({i \in 1..Len(seq) : seq[i] = x})

\* The interface blocks written to the file, as (namespace, position) pairs.
Blocks == {<<i, j>> \in (1..Len(output_file)) \X (1..3 * MaxCalls) :
              j <= Len(output_file[i].interfaces)}

Block(b) == output_file[b[1]].interfaces[b[2]]

\* generate_ts leaves the registry as it is, so every registry state of a behaviour
\* occurs in it with phase = "load": the properties of resolution that quantify
\* over every field are evaluated in those states.

\* The serializer class a block was rendered from.
BlockSerializer(b) == Lookup(__serializers, output_file[b[1]].namespace)[b[2]]

----------------------------------------------------------------------------
(* C1 *)

\* C1: registration is idempotent per context: no context's schema list holds a
\* serializer class twice, and no namespace written by generate_ts holds two
\* interface blocks of the same name.
C1_RegisteredAtMostOnce ==
    /\ \A i \in 1..Len(__serializers) : \A cls \in SerializerClasses :
           Count(cls, __serializers[i].val) <= 1
    /\ \A i \in 1..Len(output_file) : \A cls \in SerializerClasses :
           Count(ExpectedName(cls, call.prefix, call.suffix),
                 [j \in 1..Len(output_file[i].interfaces) |->
                      output_file[i].interfaces[j].name]) <= 1

----------------------------------------------------------------------------
(* C2 *)

\* C2: in every registry state, a field (or collection field) whose base kind is a
\* serializer registered in the context being rendered resolves to the interface
\* name of that serializer (with '[]' for a collection), whatever field-kind
\* overrides and field-name overrides are registered.
C2_NestedSchemaWins ==
    phase = "load" =>
    \A context \in Rendered :
      \A kind \in SerializerClasses :
        InList(kind, Lookup(__serializers, context)) =>
          \A serializer \in SerializerClasses, field_name \in CheckedNames, affix \in Affixes :
            /\ __process_field(field_name, Scalar(kind), context, serializer,
                               affix[1], affix[2]).ts_type
                 = ExpectedName(kind, affix[1], affix[2])
            /\ __process_field(field_name, ListOf(kind), context, serializer,
                               affix[1], affix[2]).ts_type
                 = ExpectedName(kind, affix[1], affix[2]) \o "[]"

\* generate_ts rendered User's field 'manager', of kind UserSerializer, as the
\* interface name although a field-kind override of UserSerializer and a name
\* override of 'manager' are registered.
C2_Witness ==
    /\ phase = "generated"
    /\ \E b \in Blocks :
         LET ns == output_file[b[1]].namespace IN
         /\ BlockSerializer(b) = "UserSerializer"
         /\ Block(b).ts_fields[4] = <<"manager", ExpectedName("UserSerializer", call.prefix, call.suffix)>>
         /\ \E c \in {ns, "default"} :
              /\ c \in DOMAIN __field_mappings
              /\ "UserSerializer" \in DOMAIN __field_mappings[c]
         /\ ns \in DOMAIN __mapping_overrides
         /\ "UserSerializer" \in DOMAIN __mapping_overrides[ns]
         /\ "manager" \in DOMAIN __mapping_overrides[ns]["UserSerializer"]

----------------------------------------------------------------------------
(* C3 *)

\* C3: in every registry state, for every context, owning schema, field name and
\* kind K, a collection field whose child has kind K resolves to the type a
\* non-collection field of kind K resolves to, followed by '[]'.
C3_CollectionComposition ==
    phase = "load" =>
    \A context \in Rendered :
      \A serializer \in SerializerClasses, field_name \in CheckedNames, kind \in FieldKinds :
        Resolved(field_name, ListOf(kind), context, serializer)
          = Resolved(field_name, Scalar(kind), context, serializer) \o "[]"

\* generate_ts rendered User with 'price' taken from a field-kind override and the
\* collection 'prices' of the same kind as that type followed by '[]'.
C3_Witness ==
    /\ phase = "generated"
    /\ \E b \in Blocks :
         /\ BlockSerializer(b) = "UserSerializer"
         /\ Block(b).ts_fields[2] = <<"price", "Money">>
         /\ Block(b).ts_fields[6] = <<"prices", "Money[]">>

----------------------------------------------------------------------------
(* C4 *)

\* C4, as claimed: generate_ts never fails and resolves every field of every
\* rendered schema to a non-empty type string.
C4_ResolutionTotal ==
    phase = "generated" =>
      /\ error = "None"
      /\ \A b \in Blocks : \A k \in 1..Len(Block(b).ts_fields) :
           Block(b).ts_fields[k][2] # ""

\* The overrides and interface names that can supply the empty string for a
\* non-collection field of the given kind.
EmptySource(namespace, serializer, field_name, kind) ==
    \/ \E c \in {namespace, "default"} :
         /\ c \in DOMAIN __field_mappings
         /\ kind \in DOMAIN __field_mappings[c]
         /\ __field_mappings[c][kind] = ""
    \/ /\ namespace \in DOMAIN __mapping_overrides
       /\ serializer \in DOMAIN __mapping_overrides[namespace]
       /\ field_name \in DOMAIN __mapping_overrides[namespace][serializer]
       /\ __mapping_overrides[namespace][serializer][field_name] = ""
    \/ /\ kind \in SerializerClasses
       /\ ExpectedName(kind, call.prefix, call.suffix) = ""

\* C4, amended: generate_ts never fails, renders every schema of every selected
\* context and resolves each of its fields to one type string; the string is empty
\* only for a non-collection field whose type is taken from a field-kind override,
\* a field-name override or an interface name that is itself the empty string.
C4_ResolutionTotalAmended ==
    phase = "generated" =>
      /\ error = "None"
      /\ \A i \in 1..Len(__serializers) :
           (call.all_contexts \/ call.context = __serializers[i].key) =>
             \E n \in 1..Len(output_file) :
               /\ output_file[n].namespace = __serializers[i].key
               /\ Len(output_file[n].interfaces) = Len(__serializers[i].val)
      /\ \A b \in Blocks :
           LET declared == Fields(BlockSerializer(b)) IN
           /\ Len(Block(b).ts_fields) = Len(declared)
           /\ \A k \in 1..Len(declared) :
                /\ Block(b).ts_fields[k][1] = declared[k].name
                /\ Block(b).ts_fields[k][2] = "" =>
                     /\ declared[k].field.child = <<>>
                     /\ EmptySource(output_file[b[1]].namespace, BlockSerializer(b),
                                    declared[k].name, declared[k].field.type)

\* generate_ts rendered User with 'price', of a kind that has no override and no
\* table entry, as 'any'.
C4_Witness ==
    /\ phase = "generated"
    /\ error = "None"
    /\ \E b \in Blocks :
         /\ BlockSerializer(b) = "UserSerializer"
         /\ Block(b).ts_fields[2] = <<"price", "any">>
         /\ \A c \in DOMAIN __field_mappings : "MoneyField" \notin DOMAIN __field_mappings[c]

----------------------------------------------------------------------------
(* C5 *)

\* The contexts of a sequence that generate_ts was asked for.
Selected(contexts) ==
    SelectSeq(contexts, LAMBDA c : call.all_contexts \/ call.context = c)

\* The namespaces written, in file order.
Namespaces == [i \in 1..Len(output_file) |-> output_file[i].namespace]

\* Inside each namespace the interfaces are those of the schemas registered in the
\* context, in registration order.
InterfacesInRegistrationOrder ==
    \A i \in 1..Len(output_file) :
      LET ns == output_file[i].namespace IN
      /\ ns \in DOMAIN history.schemas
      /\ [j \in 1..Len(output_file[i].interfaces) |-> output_file[i].interfaces[j].name]
           = [j \in 1..Len(history.schemas[ns]) |->
                ExpectedName(history.schemas[ns][j], call.prefix, call.suffix)]

\* C5, as claimed: generate_ts writes one namespace for each selected context that
\* a decorator registered, in the order the contexts were first registered, and
\* inside it the interfaces in schema registration order.
C5_EmissionOrder ==
    phase = "generated" =>
      /\ Namespaces = Selected(history.contexts)
      /\ InterfacesInRegistrationOrder

\* C5, amended: generate_ts writes one namespace for each selected context in which
\* ts_interface registered a schema, in the order in which the contexts first had
\* a schema registered (a context that only ts_field registered has no namespace
\* and no place in the order), and inside it the interfaces in schema
\* registration order.
C5_EmissionOrderAmended ==
    phase = "generated" =>
      /\ Namespaces = Selected(history.schema_contexts)
      /\ InterfacesInRegistrationOrder

\* generate_ts wrote two namespaces for two contexts with schemas.
C5_Witness ==
    /\ phase = "generated"
    /\ call.all_contexts
    /\ Len(output_file) = 2
    /\ output_file[1].namespace # "default"
    /\ output_file[1].interfaces # <<>>
    /\ output_file[2].interfaces # <<>>

----------------------------------------------------------------------------
(* C6 *)

\* A step is a decorator application with context X.
RegistersIn(X) ==
    \/ \E ts_type \in TsTypes, cls \in FieldDecorated : ts_field(ts_type, X, cls)
    \/ \E mapping_overrides \in OverrideArgs, cls \in InterfaceDecorated :
          ts_interface(X, mapping_overrides, cls)

\* What __process_field returns or raises for every checked field under context Y.
ResolutionUnder(Y) ==
    [serializer \in SerializerClasses, field_name \in CheckedNames, kind \in FieldKinds |->
        __process_field(field_name, Scalar(kind), Y, serializer, "", "")]

\* A step registers again, in 'default', a schema that 'default' already holds: of
\* the registrations of 'default' only its name overrides can change.
RegistersAgainInDefault ==
    \E mapping_overrides \in OverrideArgs, cls \in SerializerClasses :
      /\ \E i \in 1..Len(__serializers) :
            __serializers[i].key = "default" /\ InList(cls, __serializers[i].val)
      /\ ts_interface("default", mapping_overrides, cls)

\* C6: a registration (schema, field-kind override or name override) in a context X
\* other than 'default' leaves the type resolved for every field under every other
\* context Y as it was; of the registrations in 'default', one that changes only
\* name overrides leaves it as it was too.
C6_ContextsIndependent ==
    [][/\ \A X \in Contexts \ {"default"} :
            RegistersIn(X) =>
              \A Y \in Contexts \ {X} : ResolutionUnder(Y)' = ResolutionUnder(Y)
       /\ RegistersAgainInDefault =>
            \A Y \in Contexts \ {"default"} : ResolutionUnder(Y)' = ResolutionUnder(Y)]_vars

\* generate_ts rendered 'price' under Y as 'any' although another non-default
\* context X has a field-kind override for its kind.
C6_Witness ==
    /\ phase = "generated"
    /\ \E b \in Blocks :
         /\ BlockSerializer(b) = "UserSerializer"
         /\ Block(b).ts_fields[2] = <<"price", "any">>
         /\ \E X \in DOMAIN __field_mappings \ {"default", output_file[b[1]].namespace} :
              /\ "MoneyField" \in DOMAIN __field_mappings[X]
              /\ __field_mappings[X]["MoneyField"] = "Money"

----------------------------------------------------------------------------
(* C7 *)

\* C7: ts_interface applied to a class that is no Serializer subclass, and ts_field
\* applied to a class that is no Field subclass, return the class and leave the
\* schema lists, the field-kind overrides and the name overrides of every context,
\* context keys included, as they were; no error is raised.
C7_MalformedIsNoOp ==
    [][\A context \in Contexts, cls \in FieldDecorated \cup InterfaceDecorated :
         ( \/ /\ cls \notin SerializerClasses
              /\ \E mapping_overrides \in OverrideArgs :
                    ts_interface(context, mapping_overrides, cls)
           \/ /\ cls \notin FieldClasses \cup SerializerClasses
              /\ \E ts_type \in TsTypes : ts_field(ts_type, context, cls) )
         => /\ registry' = registry
            /\ returned' = cls
            /\ error' = error]_vars

\* A decorator was applied to the class Plain after a schema was registered.
C7_Witness ==
    /\ returned = "Plain"
    /\ __serializers # <<>>
    /\ error = "None"

----------------------------------------------------------------------------
(* C8 *)

\* The argument is a dict with at least one entry.
NonEmpty(mapping_overrides) ==
    /\ Len(mapping_overrides) = 1
    /\ DOMAIN mapping_overrides[1] # {}

\* Every entry of the dict is in the name overrides of cls in context.
EntriesPresent(overrides, context, cls, dict) ==
    /\ context \in DOMAIN overrides
    /\ cls \in DOMAIN overrides[context]
    /\ \A field_name \in DOMAIN dict :
         /\ field_name \in DOMAIN overrides[context][cls]
         /\ overrides[context][cls][field_name] = dict[field_name]

HasOverrides(context, cls) ==
    /\ context \in DOMAIN __mapping_overrides
    /\ cls \in DOMAIN __mapping_overrides[context]

\* C8, as claimed: after ts_interface registers S in C with a non-empty map M, every
\* entry of M is in C's name overrides of S, also when S already had overrides in
\* C; an empty or absent map leaves the name overrides as they were.
C8_OverridesMerge ==
    [][\A context \in Contexts, mapping_overrides \in OverrideArgs, cls \in SerializerClasses :
         ts_interface(context, mapping_overrides, cls) =>
           IF NonEmpty(mapping_overrides)
           THEN EntriesPresent(__mapping_overrides', context, cls, mapping_overrides[1])
           ELSE __mapping_overrides' = __mapping_overrides]_vars

\* C8, amended: after ts_interface registers S in C with a non-empty map M, every
\* entry of M is in C's name overrides of S if S had no overrides in C before; if S
\* had, its map is kept and M is dropped; an empty or absent map leaves the name
\* overrides as they were.
C8_OverridesFirstWins ==
    [][\A context \in Contexts, mapping_overrides \in OverrideArgs, cls \in SerializerClasses :
         ts_interface(context, mapping_overrides, cls) =>
           IF NonEmpty(mapping_overrides) /\ ~HasOverrides(context, cls)
           THEN /\ EntriesPresent(__mapping_overrides', context, cls, mapping_overrides[1])
                /\ DOMAIN __mapping_overrides'[context][cls] = DOMAIN mapping_overrides[1]
           ELSE __mapping_overrides' = __mapping_overrides]_vars

\* User was registered twice in a context and has the overrides of a map there.
C8_Witness ==
    \E i \in 1..Len(__serializers) :
      /\ Count("UserSerializer", __serializers[i].val) = 2
      /\ HasOverrides(__serializers[i].key, "UserSerializer")
      /\ __mapping_overrides[__serializers[i].key]["UserSerializer"]
           = [manager |-> "Boss", price |-> "Decimal"]

----------------------------------------------------------------------------
(* C9 *)

\* The elements of a sequence without repetition, each at its first occurrence.
FirstSeen(seq) ==
    LET first == {i \in 1..Len(seq) : \A j \in 1..(i - 1) : seq[j] # seq[i]}
        nth(k) == CHOOSE i \in first : Cardinality({j \in first : j < i}) = k - 1
    IN [k \in 1..Cardinality(first) |-> seq[nth(k)]]

\* C9: the '[x: string]' line of every rendered interface is the ' | '-joined list
\* of the types of its fields, without duplicates, each type at the place of its
\* first occurrence in field order.
C9_IndexSignature ==
    \A b \in Blocks :
      LET types == [k \in 1..Len(Block(b).ts_fields) |-> Block(b).ts_fields[k][2]] IN
      Block(b).indexable_type_str
        = "    [x: string]: " \o Join(FirstSeen(types), " | ") \o ";"

\* generate_ts rendered User with fields of types number, any, number, User, any[],
\* any[] and the index signature number | any | User | any[].
C9_Witness ==
    /\ phase = "generated"
    /\ \E b \in Blocks :
         /\ BlockSerializer(b) = "UserSerializer"
         /\ [k \in 1..6 |-> Block(b).ts_fields[k][2]]
              = <<"number", "any", "number", "User", "any[]", "any[]">>
         /\ Block(b).indexable_type_str = "    [x: string]: number | any | User | any[];"

----------------------------------------------------------------------------
(* C10 *)

\* The kind is a serializer registered neither in the context nor in 'default'.
NotNested(kind, context) ==
    /\ ~InList(kind, Lookup(__serializers, context))
    /\ \A i \in 1..Len(__serializers) :
         __serializers[i].key = "default" => ~InList(kind, __serializers[i].val)

\* The entry of the static table, 'any' for a kind it does not hold.
StaticType(kind) ==
    CASE kind = "IntegerField" -> "number"
      [] kind = "CharField" -> "string"
      [] OTHER -> "any"

\* C10: a field whose base kind is no schema registered in the current or the
\* default context takes the field-kind override of the current context if there
\* is one, else that of 'default' if there is one, else the owning schema's name
\* override in the current context if there is one, else the static table's type.
C10_KindOverridesShadowNameOverrides ==
    phase = "load" =>
    \A context \in Rendered :
      \A serializer \in SerializerClasses, field_name \in CheckedNames, kind \in FieldKinds :
        NotNested(kind, context) =>
          Resolved(field_name, Scalar(kind), context, serializer)
            = IF context \in DOMAIN __field_mappings
                   /\ kind \in DOMAIN __field_mappings[context]
              THEN __field_mappings[context][kind]
              ELSE IF "default" \in DOMAIN __field_mappings
                      /\ kind \in DOMAIN __field_mappings["default"]
              THEN __field_mappings["default"][kind]
              ELSE IF HasOverrides(context, serializer)
                      /\ field_name \in DOMAIN __mapping_overrides[context][serializer]
              THEN __mapping_overrides[context][serializer][field_name]
              ELSE StaticType(kind)

\* generate_ts rendered User's 'price' with the field-kind override of MoneyField
\* although User has a name override for 'price' in that context.
C10_Witness ==
    /\ phase = "generated"
    /\ \E b \in Blocks :
         LET ns == output_file[b[1]].namespace IN
         /\ BlockSerializer(b) = "UserSerializer"
         /\ Block(b).ts_fields[2] = <<"price", "Money">>
         /\ HasOverrides(ns, "UserSerializer")
         /\ "price" \in DOMAIN __mapping_overrides[ns]["UserSerializer"]
         /\ __mapping_overrides[ns]["UserSerializer"]["price"] = "Decimal"

====
